---- MODULE Spec2Model ----
(***************************************************************************)
(* Smart Chef recipe-resolution pipeline (src/smart_chef).                 *)
(*                                                                         *)
(* One invocation of fetch_recipes_for_ingredients is a state machine over *)
(* its program counter: input parsing, the combined USDA search, the       *)
(* per-ingredient searches, the Ollama fallback, the per-recipe USDA       *)
(* enrichment and the return.  External services answer each request with  *)
(* a nondeterministically chosen outcome.                                  *)
(*                                                                         *)
(* Python strings are sequences of chunks (TLA+ strings); text that the    *)
(* code inspects character by character is a sequence of one-character     *)
(* chunks.  The empty string is <<>>, concatenation is \o.                 *)
(***************************************************************************)
EXTENDS Integers, Sequences, FiniteSets, TLC

VARIABLES
    FDC_API_KEY,        \* nutrition_query.FDC_API_KEY (process default)
    OLLAMA_API_KEY,     \* ai_utils.OLLAMA_API_KEY (process default)
    pc,                 \* position inside fetch_recipes_for_ingredients
    ingredients_text,   \* argument
    max_results_per_search, \* argument
    ollama_api_key,     \* argument
    fdc_api_key,        \* argument
    ingredients,        \* parsed Ingredient Terms
    foods,              \* result of the combined search
    err,                \* error of the combined search
    all_foods,          \* accumulator of the per-ingredient searches
    seen_ids,           \* dedup set of the per-ingredient searches
    idx,                \* loop position (ingredient loop, recipe loop)
    ing_i,              \* position of the lookup loop within one enrichment
    acc,                \* accumulator of the lookup loop
    usda_error,         \* argument of _ollama_fallback
    gen_err,            \* error returned by generate_recipes_with_nutrition
    parsed,             \* recipes as returned by the Response Parser
    recipes,            \* recipes being enriched in _ollama_fallback
    result,             \* returned (recipes, error_message, source)
    raised,             \* exception that left the function, or None
    log,                \* external client calls made so far, in order
    lead,               \* prose before the JSON of a response text
    resp_body,          \* the JSON (or what stands for it) of a response text
    trail,              \* prose after the JSON of a response text
    kind,               \* how body was built
    resp_entries,       \* the entries of the recipes list body was built from
    parse_out,          \* what _parse_ollama_recipes_json returned or raised
    usda_food,          \* a USDA food record
    extract_out,        \* what _extract_nutrients returned or raised
    search_call,        \* arguments of a search_foods call and its network outcome
    search_out          \* what search_foods returned

vars == <<FDC_API_KEY, OLLAMA_API_KEY, pc, ingredients_text,
          max_results_per_search, ollama_api_key, fdc_api_key, ingredients,
          foods, err, all_foods, seen_ids, idx, ing_i, acc, usda_error,
          gen_err, parsed, recipes, result, raised, log,
          lead, resp_body, trail, kind, resp_entries, parse_out, usda_food, extract_out,
          search_call, search_out>>

\* the variables of the function-level specifications
unit_vars == <<lead, resp_body, trail, kind, resp_entries, parse_out, usda_food,
               extract_out, search_call, search_out>>

\* the variables of one pipeline invocation, pc and raised apart
call_vars == <<FDC_API_KEY, OLLAMA_API_KEY, ingredients_text,
               max_results_per_search, ollama_api_key, fdc_api_key, ingredients,
               foods, err, all_foods, seen_ids, idx, ing_i, acc, usda_error,
               gen_err, parsed, recipes, result, log>>

(***************************************************************************)
(* Bounds of the model.                                                    *)
(***************************************************************************)
MaxTextLen == 1      \* every ingredient text up to this length is an input
MaxFoods == 2        \* food records in one USDA response body

(***************************************************************************)
(* Python values.                                                          *)
(***************************************************************************)
None == <<"<None>">>

Truthy(s) == s # None /\ s # <<>>

Or(a, b) == IF Truthy(a) THEN a ELSE b

Absent == <<>>

Some(v) == <<v>>

Min(a, b) == IF a < b THEN a ELSE b

Max(a, b) == IF a > b THEN a ELSE b

Prefix(s, n) == SubSeq(s, 1, Min(n, Len(s)))

(***************************************************************************)
(* str.strip, str.replace, str.split, str.join on character sequences.     *)
(***************************************************************************)
IsSpace(c) == c = " "

RECURSIVE LStrip(_)
LStrip(s) == IF s # <<>> /\ IsSpace(Head(s)) THEN LStrip(Tail(s)) ELSE s

RECURSIVE RStrip(_)
RStrip(s) ==
    IF s # <<>> /\ IsSpace(s[Len(s)]) THEN RStrip(SubSeq(s, 1, Len(s) - 1))
    ELSE s

Strip(s) == RStrip(LStrip(s))

Replace(s, old, new) == [i \in 1..Len(s) |-> IF s[i] = old THEN new ELSE s[i]]

RECURSIVE Split(_, _)
Split(s, sep) ==
    IF \E i \in 1..Len(s) : s[i] = sep
    THEN LET i == CHOOSE k \in 1..Len(s) :
                      s[k] = sep /\ \A j \in 1..(k - 1) : s[j] # sep
         IN  <<SubSeq(s, 1, i - 1)>> \o Split(SubSeq(s, i + 1, Len(s)), sep)
    ELSE <<s>>

RECURSIVE Join(_, _)
Join(sep, parts) ==
    IF parts = <<>> THEN <<>>
    ELSE IF Len(parts) = 1 THEN parts[1]
    ELSE parts[1] \o sep \o Join(sep, Tail(parts))

RECURSIVE StripNonEmpty(_)
StripNonEmpty(raw) ==
    IF raw = <<>> THEN <<>>
    ELSE IF Strip(Head(raw)) # <<>>
         THEN <<Strip(Head(raw))>> \o StripNonEmpty(Tail(raw))
         ELSE StripNonEmpty(Tail(raw))

\* ParseIngredients without the replacement of ";" by ","
ParseIngredientsCommaOnly(text) == StripNonEmpty(Split(text, ","))

\* fetch_recipes_for_ingredients, lines 73-74
ParseIngredients(text) == StripNonEmpty(Split(Replace(text, ";", ","), ","))

(***************************************************************************)
(* nutrition_query.py: USDA FoodData Central client.                       *)
(*                                                                         *)
(* A network outcome is what one requests.get produces: an exception of    *)
(* the requests library, a body that is not JSON, or a decoded JSON body.  *)
(* A decoded body is [kind, foods]: kind "foods" is an object with a       *)
(* "foods" list, "error_object" an object without "foods" (the service's   *)
(* explicit error object), "foods_null" an object whose "foods" is null,   *)
(* "not_object" any other JSON value that is not an object, "none" the     *)
(* JSON value null (Python's None).                                        *)
(***************************************************************************)
NUTRIENT_ENERGY == 1008

NUTRIENT_PROTEIN == 1003

NUTRIENT_CARBS == 1005

NUTRIENT_FAT == 1004

E_EmptyQuery == <<"Search expression cannot be empty.">>

E_NoFdcKey == <<"FDC_API_KEY must be set in .env. Get key at https://fdc.nal.usda.gov/api-key-signup">>

E_Timeout == <<"Food search timed out. Check network and try again.">>

E_Http(status) == <<"Food search failed: ", status, " - reason">>

E_HttpNoResponse == <<"Food search failed.">>

E_Request == <<"Food search failed: ", "connection error">>

E_InvalidJson == <<"Invalid JSON in API response.">>

\* None as the data search_foods returns: what it returns with an error, and
\* what response.json() returns for the body null
NoData == [kind |-> "none", foods |-> <<>>]

\* search_foods that sends the request without a key instead of returning
\* the missing-key error
search_foods_unkeyed(search_expression, api_key, page_size, outcome) ==
    IF ~Truthy(search_expression) \/ ~Truthy(Strip(search_expression))
    THEN [data |-> NoData, err |-> E_EmptyQuery, sent |-> FALSE]
    ELSE CASE outcome.kind = "timeout" ->
                [data |-> NoData, err |-> E_Timeout, sent |-> TRUE]
           [] outcome.kind = "http" ->
                [data |-> NoData, err |-> E_Http(outcome.status), sent |-> TRUE]
           [] outcome.kind = "http_no_response" ->
                [data |-> NoData, err |-> E_HttpNoResponse, sent |-> TRUE]
           [] outcome.kind = "request_exception" ->
                [data |-> NoData, err |-> E_Request, sent |-> TRUE]
           [] outcome.kind = "invalid_json" ->
                [data |-> NoData, err |-> E_InvalidJson, sent |-> TRUE]
           [] outcome.kind = "json" ->
                [data |-> outcome.body, err |-> None, sent |-> TRUE]

\* search_foods, lines 69-101
search_foods(search_expression, api_key, page_size, outcome) ==
    IF ~Truthy(search_expression) \/ ~Truthy(Strip(search_expression))
    THEN [data |-> NoData, err |-> E_EmptyQuery, sent |-> FALSE]
    ELSE IF ~Truthy(Or(api_key, FDC_API_KEY))
    THEN [data |-> NoData, err |-> E_NoFdcKey, sent |-> FALSE]
    ELSE CASE outcome.kind = "timeout" ->
                [data |-> NoData, err |-> E_Timeout, sent |-> TRUE]
           [] outcome.kind = "http" ->
                [data |-> NoData, err |-> E_Http(outcome.status), sent |-> TRUE]
           [] outcome.kind = "http_no_response" ->
                [data |-> NoData, err |-> E_HttpNoResponse, sent |-> TRUE]
           [] outcome.kind = "request_exception" ->
                [data |-> NoData, err |-> E_Request, sent |-> TRUE]
           [] outcome.kind = "invalid_json" ->
                [data |-> NoData, err |-> E_InvalidJson, sent |-> TRUE]
           [] outcome.kind = "json" ->
                [data |-> outcome.body, err |-> None, sent |-> TRUE]

\* float(val) of a JSON nutrient value: a number, a numeric string, or a
\* string that is not a number (ValueError)
FloatOk(val) == val.t \in {"num", "numstr"}

EmptyNutrients ==
    [calories |-> Absent, protein |-> Absent, carbohydrate |-> Absent,
     fat |-> Absent]

\* a nutrition dict is the record nut; is_none marks a None in its place

\* _extract_nutrients, lines 110-123: the loop over foodNutrients
RECURSIVE ExtractLoop(_, _)
ExtractLoop(ns, res) ==
    IF ns = <<>> THEN [nut |-> res, exc |-> None]
    ELSE LET n == Head(ns)
             nid == n.nutrientId
             val == n.value
             field == CASE nid = NUTRIENT_ENERGY -> "calories"
                        [] nid = NUTRIENT_PROTEIN -> "protein"
                        [] nid = NUTRIENT_CARBS -> "carbohydrate"
                        [] nid = NUTRIENT_FAT -> "fat"
                        [] OTHER -> "ignored"
         IN  IF val.t = "null" THEN ExtractLoop(Tail(ns), res)
             ELSE IF field = "ignored" THEN ExtractLoop(Tail(ns), res)
             ELSE IF ~FloatOk(val) THEN [nut |-> res, exc |-> <<"ValueError">>]
             ELSE ExtractLoop(Tail(ns), [res EXCEPT ![field] = Some(val.v)])

\* _extract_nutrients, lines 107-123
_extract_nutrients(food) == ExtractLoop(food.foodNutrients, EmptyNutrients)

\* an fdcId that is the JSON string of the digits of n, not the number n
TextId(n) == <<n, "text">>

\* str(fid) for an fdcId that is a small number, its digits as a string, or
\* missing
StrOfId(fid) ==
    IF fid = Absent THEN <<"None">>
    ELSE <<CASE fid[1] = 0 -> "0" [] fid[1] = 1 -> "1" [] fid[1] = 2 -> "2"
             [] fid[1] = 3 -> "3" [] fid[1] = 4 -> "4" [] OTHER -> "9">>

\* search_foods_as_recipes, lines 212-222: one recipe-like dict
FoodAsRecipe(f, nut) ==
    [recipe_id |-> StrOfId(f.fdcId),
     recipe_name |-> f.description,
     recipe_description |-> Or(f.ingredients, f.brandOwner),
     calories |-> nut.calories,
     protein_g |-> nut.protein,
     carbs_g |-> nut.carbohydrate,
     fat_g |-> nut.fat,
     ingredients |-> <<>>,
     recipe_image |-> None,
     nutrition_source |-> Absent]

\* search_foods_as_recipes, lines 204-222: the loop over foods
RECURSIVE AsRecipesLoop(_, _, _)
AsRecipesLoop(fs, seen, res) ==
    IF fs = <<>> THEN [result |-> res, exc |-> None]
    ELSE LET f == Head(fs)
         IN  IF f.fdcId \in seen THEN AsRecipesLoop(Tail(fs), seen, res)
             ELSE LET x == _extract_nutrients(f)
                  IN  IF x.exc # None THEN [result |-> res, exc |-> x.exc]
                      ELSE AsRecipesLoop(Tail(fs), seen \cup {f.fdcId},
                                         Append(res, FoodAsRecipe(f, x.nut)))

PageSizeCap == 50

\* search_foods_as_recipes, lines 196-223
search_foods_as_recipes(search_expression, api_key, max_results, outcome) ==
    LET r == search_foods(search_expression, api_key,
                          Min(max_results, PageSizeCap), outcome)
        none == [result |-> <<>>, err |-> None, exc |-> None, sent |-> r.sent]
    IN  IF Truthy(r.err) THEN [none EXCEPT !.err = r.err]
        ELSE IF r.data.kind \in {"not_object", "none"}
             THEN [none EXCEPT !.exc = <<"AttributeError">>]
        ELSE IF r.data.kind = "foods_null"
             THEN [none EXCEPT !.exc = <<"TypeError">>]
        ELSE LET fs == IF r.data.kind = "foods" THEN r.data.foods ELSE <<>>
                 a == AsRecipesLoop(fs, {}, <<>>)
             IN  IF a.exc # None THEN [none EXCEPT !.exc = a.exc]
                 ELSE [none EXCEPT !.result = a.result]

E_NoFood == <<"No food found">>

E_NoNutrition == <<"No nutrition data for this food">>

\* get_nutrition_for_food, lines 139-148
get_nutrition_for_food(search_expression, api_key, outcome) ==
    LET r == search_foods(search_expression, api_key, 1, outcome)
        none == [nut |-> EmptyNutrients, is_none |-> TRUE, err |-> None,
                 exc |-> None, sent |-> r.sent]
    IN  IF Truthy(r.err) THEN [none EXCEPT !.err = r.err]
        ELSE IF r.data.kind \in {"not_object", "none"}
             THEN [none EXCEPT !.exc = <<"AttributeError">>]
        ELSE LET fs == IF r.data.kind = "foods" THEN r.data.foods ELSE <<>>
             IN  IF fs = <<>> THEN [none EXCEPT !.err = E_NoFood]
                 ELSE LET x == _extract_nutrients(fs[1])
                      IN  IF x.exc # None THEN [none EXCEPT !.exc = x.exc]
                          ELSE IF x.nut.calories = Absent
                                  /\ x.nut.protein = Absent
                               THEN [none EXCEPT !.err = E_NoNutrition]
                               ELSE [none EXCEPT !.nut = x.nut, !.is_none = FALSE]

MaxLookups == 8

ZeroAcc == [calories |-> 0, protein |-> 0, carbohydrate |-> 0, fat |-> 0]

\* AddNut that keeps the last value instead of adding it
AddNutOverwrite(sums, nut) ==
    [f \in DOMAIN sums |-> IF nut[f] # Absent THEN nut[f][1] ELSE sums[f]]

\* estimate_recipe_nutrition_from_ingredients, lines 171-173
AddNut(sums, nut) ==
    [f \in DOMAIN sums |->
        IF nut[f] # Absent THEN sums[f] + nut[f][1] ELSE sums[f]]

\* estimate_recipe_nutrition_from_ingredients, lines 168-173: the effect of
\* one lookup g on the accumulator
LookupAdd(sums, g) ==
    IF Truthy(g.err) \/ g.is_none THEN sums ELSE AddNut(sums, g.nut)

E_NoIngredients == <<"No ingredients provided">>

E_NoEstimate == <<"Could not find nutrition for any ingredient">>

\* estimate_recipe_nutrition_from_ingredients, lines 174-176: the result for
\* the accumulator left by the loop
EstimateResult(sums) ==
    IF sums.calories = 0 /\ sums.protein = 0
    THEN [nut |-> EmptyNutrients, is_none |-> TRUE, err |-> E_NoEstimate]
    ELSE [nut |-> [f \in DOMAIN sums |-> Some(sums[f])], is_none |-> FALSE,
          err |-> None]

(***************************************************************************)
(* ai_utils.py: Ollama client and Response Parser.                         *)
(*                                                                         *)
(* The text of a generative response is a sequence of chunks: the JSON     *)
(* punctuation "{" "}" "[" "]" ",", a key with its colon, a scalar         *)
(* literal, white space " ", or a word of prose (anything else).           *)
(* json.loads is a recursive-descent parse of those chunks.  A decoded     *)
(* value is a record tagged by t: "obj" (m: members in text order),        *)
(* "arr" (e: elements), "num" (v), "str" (s), "bool" (b), "null".          *)
(***************************************************************************)
K_recipes == "\"recipes\":"

K_name == "\"recipe_name\":"

K_desc == "\"recipe_description\":"

K_cal == "\"calories\":"

K_pro == "\"protein\":"

K_carb == "\"carbohydrate\":"

K_fat == "\"fat\":"

K_other == "\"note\":"

KeyName(tok) ==
    CASE tok = K_recipes -> "recipes"
      [] tok = K_name -> "recipe_name"
      [] tok = K_desc -> "recipe_description"
      [] tok = K_cal -> "calories"
      [] tok = K_pro -> "protein"
      [] tok = K_carb -> "carbohydrate"
      [] tok = K_fat -> "fat"
      [] tok = K_other -> "note"

KeyTokens == {K_recipes, K_name, K_desc, K_cal, K_pro, K_carb, K_fat, K_other}

JNull == [t |-> "null"]

JNum(n) == [t |-> "num", v |-> n]

JStr(s) == [t |-> "str", s |-> s]

JBool(b) == [t |-> "bool", b |-> b]

\* the scalar literals of the lexicon and the values they decode to
ScalarTokens ==
    {"0", "1", "7", "null", "true", "false", "\"\"", "\"A\"", "\"B\"",
     "\"7\"", "\" A \""}

ScalarValue(tok) ==
    CASE tok = "0" -> JNum(0)
      [] tok = "1" -> JNum(1)
      [] tok = "7" -> JNum(7)
      [] tok = "null" -> JNull
      [] tok = "true" -> JBool(TRUE)
      [] tok = "false" -> JBool(FALSE)
      [] tok = "\"\"" -> JStr(<<>>)
      [] tok = "\"A\"" -> JStr(<<"A">>)
      [] tok = "\"B\"" -> JStr(<<"B">>)
      [] tok = "\"7\"" -> JStr(<<"7">>)
      [] tok = "\" A \"" -> JStr(<<" ", "A", " ">>)

RECURSIVE SkipWs(_, _)
SkipWs(t, i) == IF i <= Len(t) /\ t[i] = " " THEN SkipWs(t, i + 1) ELSE i

JFail == [ok |-> FALSE, val |-> JNull, pos |-> 0]

JOk(v, p) == [ok |-> TRUE, val |-> v, pos |-> p]

RECURSIVE JValue(_, _)
RECURSIVE JMembers(_, _, _)
RECURSIVE JElems(_, _, _)

\* one JSON value starting at or after position i
JValue(t, i) ==
    LET j == SkipWs(t, i)
    IN  IF j > Len(t) THEN JFail
        ELSE IF t[j] = "{"
             THEN LET k == SkipWs(t, j + 1)
                  IN  IF k <= Len(t) /\ t[k] = "}"
                      THEN JOk([t |-> "obj", m |-> <<>>], k + 1)
                      ELSE JMembers(t, k, <<>>)
        ELSE IF t[j] = "["
             THEN LET k == SkipWs(t, j + 1)
                  IN  IF k <= Len(t) /\ t[k] = "]"
                      THEN JOk([t |-> "arr", e |-> <<>>], k + 1)
                      ELSE JElems(t, k, <<>>)
        ELSE IF t[j] \in ScalarTokens THEN JOk(ScalarValue(t[j]), j + 1)
        ELSE JFail

\* the members of an object, the first key expected at position i
JMembers(t, i, sofar) ==
    LET j == SkipWs(t, i)
    IN  IF j > Len(t) \/ t[j] \notin KeyTokens THEN JFail
        ELSE LET v == JValue(t, j + 1)
             IN  IF ~v.ok THEN JFail
                 ELSE LET k == SkipWs(t, v.pos)
                          sofar2 == Append(sofar, [k |-> KeyName(t[j]), v |-> v.val])
                      IN  IF k > Len(t) THEN JFail
                          ELSE IF t[k] = "," THEN JMembers(t, k + 1, sofar2)
                          ELSE IF t[k] = "}"
                               THEN JOk([t |-> "obj", m |-> sofar2], k + 1)
                          ELSE JFail

\* the elements of an array, the first element expected at position i
JElems(t, i, sofar) ==
    LET v == JValue(t, i)
    IN  IF ~v.ok THEN JFail
        ELSE LET k == SkipWs(t, v.pos)
                 sofar2 == Append(sofar, v.val)
             IN  IF k > Len(t) THEN JFail
                 ELSE IF t[k] = "," THEN JElems(t, k + 1, sofar2)
                 ELSE IF t[k] = "]" THEN JOk([t |-> "arr", e |-> sofar2], k + 1)
                 ELSE JFail

\* json_loads that decodes the first value and ignores what follows it
json_loads_prefix(t) == JValue(t, 1)

\* json.loads: one value and nothing but white space after it
json_loads(t) ==
    LET v == JValue(t, 1)
    IN  IF v.ok /\ SkipWs(t, v.pos) > Len(t) THEN v ELSE JFail

\* BraceSpan that never matches: the whole text is decoded
BraceSpanNone(text) == [found |-> FALSE, span |-> text]

\* re.search(r"\{[\s\S]*\}", text): the span from the first "{" to the
\* last "}" after it, or no match
BraceSpan(text) ==
    LET opens == {i \in 1..Len(text) : text[i] = "{"}
    IN  IF opens = {} THEN [found |-> FALSE, span |-> text]
        ELSE LET a == CHOOSE i \in opens : \A j \in opens : i <= j
                 closes == {i \in (a + 1)..Len(text) : text[i] = "}"}
             IN  IF closes = {} THEN [found |-> FALSE, span |-> text]
                 ELSE LET b == CHOOSE i \in closes : \A j \in closes : j <= i
                      IN  [found |-> TRUE, span |-> SubSeq(text, a, b)]

\* truth value of a decoded JSON value
JTruthy(v) ==
    CASE v.t = "null" -> FALSE
      [] v.t = "bool" -> v.b
      [] v.t = "num" -> v.v # 0
      [] v.t = "str" -> v.s # <<>>
      [] v.t = "arr" -> v.e # <<>>
      [] v.t = "obj" -> v.m # <<>>

HasKey(obj, key) == \E i \in 1..Len(obj.m) : obj.m[i].k = key

\* dict[key] of a decoded object: the last member with that key
Lookup(obj, key) ==
    LET i == CHOOSE n \in 1..Len(obj.m) :
                 obj.m[n].k = key /\ \A j \in (n + 1)..Len(obj.m) : obj.m[j].k # key
    IN  obj.m[i].v

\* dict.get(key): None (JSON null) when the key is missing
Get(obj, key) == IF HasKey(obj, key) THEN Lookup(obj, key) ELSE JNull

\* str(val)
StrOf(v) ==
    CASE v.t = "str" -> v.s
      [] v.t = "null" -> <<"None">>
      [] v.t = "bool" -> IF v.b THEN <<"True">> ELSE <<"False">>
      [] v.t = "num" -> <<CASE v.v = 0 -> "0" [] v.v = 1 -> "1" [] OTHER -> "7">>
      [] v.t = "arr" -> <<"[...]">>
      [] v.t = "obj" -> <<"{...}">>

\* _safe_float, lines 178-182
_safe_float(v) ==
    CASE v.t = "null" -> Absent
      [] v.t = "num" -> Some(v.v)
      [] v.t = "bool" -> Some(IF v.b THEN 1 ELSE 0)
      [] v.t = "str" -> IF v.s = <<"7">> THEN Some(7) ELSE Absent
      [] v.t = "arr" -> Absent
      [] v.t = "obj" -> Absent

DigitStr(i) ==
    CASE i = 0 -> "0" [] i = 1 -> "1" [] i = 2 -> "2" [] i = 3 -> "3"
      [] i = 4 -> "4" [] i = 5 -> "5" [] i = 6 -> "6" [] i = 7 -> "7"
      [] i = 8 -> "8" [] OTHER -> "9"

\* RecordAsRecipe that numbers the candidates from 1
RecordAsRecipeFromOne(r, i) ==
    [recipe_id |-> <<"ollama-", DigitStr(i + 1)>>,
     recipe_name |->
        Strip(IF HasKey(r, "recipe_name") THEN StrOf(Lookup(r, "recipe_name"))
              ELSE <<"Recipe">>),
     recipe_description |->
        Strip(IF HasKey(r, "recipe_description")
              THEN StrOf(Lookup(r, "recipe_description")) ELSE <<>>),
     calories |-> _safe_float(Get(r, "calories")),
     protein_g |-> _safe_float(Get(r, "protein")),
     carbs_g |-> _safe_float(Get(r, "carbohydrate")),
     fat_g |-> _safe_float(Get(r, "fat")),
     ingredients |-> <<>>,
     recipe_image |-> None,
     nutrition_source |-> Absent]

\* _parse_ollama_recipes_json, lines 165-175: one candidate from record r
\* at position i (0-based)
RecordAsRecipe(r, i) ==
    [recipe_id |-> <<"ollama-", DigitStr(i)>>,
     recipe_name |->
        Strip(IF HasKey(r, "recipe_name") THEN StrOf(Lookup(r, "recipe_name"))
              ELSE <<"Recipe">>),
     recipe_description |->
        Strip(IF HasKey(r, "recipe_description")
              THEN StrOf(Lookup(r, "recipe_description")) ELSE <<>>),
     calories |-> _safe_float(Get(r, "calories")),
     protein_g |-> _safe_float(Get(r, "protein")),
     carbs_g |-> _safe_float(Get(r, "carbohydrate")),
     fat_g |-> _safe_float(Get(r, "fat")),
     ingredients |-> <<>>,
     recipe_image |-> None,
     nutrition_source |-> Absent]

\* RecordsLoop that stops at the first entry that is not an object
RECURSIVE RecordsLoopStop(_, _, _)
RecordsLoopStop(raw, i, res) ==
    IF i > Len(raw) \/ raw[i].t # "obj" THEN res
    ELSE RecordsLoopStop(raw, i + 1, Append(res, RecordAsRecipe(raw[i], i - 1)))

\* _parse_ollama_recipes_json, lines 163-175: the loop over recipes_raw
RECURSIVE RecordsLoop(_, _, _)
RecordsLoop(raw, i, res) ==
    IF i > Len(raw) THEN res
    ELSE IF raw[i].t # "obj" THEN RecordsLoop(raw, i + 1, res)
    ELSE RecordsLoop(raw, i + 1, Append(res, RecordAsRecipe(raw[i], i - 1)))

E_JsonParse == <<"JSON Parse Error.">>

\* _parse_ollama_recipes_json, lines 147-176
_parse_ollama_recipes_json(text0) ==
    LET text == Strip(text0)
        m == BraceSpan(text)
        d == json_loads(IF m.found THEN m.span ELSE text)
        none == [result |-> <<>>, err |-> None, exc |-> None]
    IN  IF ~d.ok THEN [none EXCEPT !.err = E_JsonParse]
        ELSE IF d.val.t # "obj" THEN [none EXCEPT !.exc = <<"AttributeError">>]
        ELSE LET got == Get(d.val, "recipes")
             IN  IF ~JTruthy(got) THEN none
                 ELSE IF got.t = "obj"
                      THEN [none EXCEPT !.result = RecordsLoop(<<got>>, 1, <<>>)]
                 ELSE IF got.t = "arr"
                      THEN [none EXCEPT !.result = RecordsLoop(got.e, 1, <<>>)]
                 ELSE IF got.t = "str" THEN none
                 ELSE [none EXCEPT !.exc = <<"TypeError">>]

E_NoOllamaKey == <<"OLLAMA_API_KEY not set.">>

E_NoResponse == <<"No response from AI.">>

\* _call_ollama, lines 184-197: the outcome of the single POST
_call_ollama(outcome) ==
    IF outcome.kind = "exception" THEN [text |-> None, err |-> outcome.msg]
    ELSE [text |-> outcome.text, err |-> None]

\* generate_recipes_with_nutrition, lines 81-120
generate_recipes_with_nutrition(ings, api_key_arg, max_recipes, outcome) ==
    LET api_key == Or(api_key_arg, OLLAMA_API_KEY)
        none == [result |-> <<>>, err |-> None, exc |-> None, sent |-> TRUE]
    IN  IF ~Truthy(api_key)
        THEN [none EXCEPT !.err = E_NoOllamaKey, !.sent = FALSE]
        ELSE LET c == _call_ollama(outcome)
             IN  IF Truthy(c.err) \/ ~Truthy(c.text)
                 THEN [none EXCEPT !.err = Or(c.err, E_NoResponse)]
                 ELSE LET p == _parse_ollama_recipes_json(c.text)
                      IN  [none EXCEPT !.result = p.result, !.err = p.err,
                                       !.exc = p.exc]

(***************************************************************************)
(* The inputs and the answers of the external services.                    *)
(***************************************************************************)
Chars == {"a", "x", " ", ",", ";"}

TextsUpTo(n) == UNION {[1..k -> Chars] : k \in 0..n}

\* longer inputs: several terms, multi-word terms, separators only
ExtraTexts ==
    {<<"a", "x">>, <<"x", ",", "a">>, <<"a", " ", "x">>, <<" ", "a", ";", "x">>,
     <<" ", ",", ";", " ">>, <<"a", ",", "a", ",", "a", ",", "a">>}

IngredientTexts == TextsUpTo(MaxTextLen) \cup ExtraTexts

\* values of max_results_per_search (the app passes 15)
MaxResultsOptions == {1, 2}

KeyOptions == {None, <<"key">>}

Nutrient(id, val) == [nutrientId |-> id, value |-> val]

VNum(n) == [t |-> "num", v |-> n]

VNull == [t |-> "null", v |-> 0]

VText == [t |-> "text", v |-> 0]

Food(id, name, ns) ==
    [fdcId |-> id, description |-> <<name>>, ingredients |-> <<>>,
     brandOwner |-> <<"brand">>, foodNutrients |-> ns]

\* the food records a USDA response is built from
FoodRecords ==
    {Food(Some(1), "CHICKEN", <<Nutrient(NUTRIENT_ENERGY, VNum(2)),
                                Nutrient(NUTRIENT_PROTEIN, VNum(1)),
                                Nutrient(NUTRIENT_FAT, VNum(1))>>),
     Food(TextId(1), "WATER", <<Nutrient(NUTRIENT_ENERGY, VNum(0)),
                              Nutrient(NUTRIENT_PROTEIN, VNum(0)),
                              Nutrient(NUTRIENT_CARBS, VNum(1))>>),
     Food(Some(2), "SALT", <<Nutrient(NUTRIENT_ENERGY, VNull),
                             Nutrient(NUTRIENT_FAT, VNum(1))>>),
     Food(Some(3), "BROKEN", <<Nutrient(NUTRIENT_ENERGY, VNum(2)),
                               Nutrient(NUTRIENT_PROTEIN, VText)>>)}

FoodLists(n) == UNION {[1..k -> FoodRecords] : k \in 0..n}

PageSizeMax == 200

\* search_foods, line 80: the pageSize parameter of the request
PageSizeParam(page_size) == Min(Max(1, page_size), PageSizeMax)

\* a request that fails in transport or with a non-2xx status
TransportErrors == {[kind |-> "timeout"], [kind |-> "http", status |-> "500"]}

\* a 200 answer whose body is the service's error object: no "foods" list
ErrorObject == [kind |-> "json", body |-> [kind |-> "error_object", foods |-> <<>>]]

\* what the service may answer to a request for one page of page_size foods
UsdaOutcomes(page_size) ==
    TransportErrors
    \cup {ErrorObject,
          [kind |-> "json", body |-> [kind |-> "not_object", foods |-> <<>>]]}
    \cup {[kind |-> "json", body |-> [kind |-> "foods", foods |-> fs]] :
            fs \in FoodLists(Min(PageSizeParam(page_size), MaxFoods))}

RecordA == <<"{", K_name, "\"A\"", ",", K_cal, "7", ",", K_pro, "null", "}">>

RecordB == <<"{", K_name, "\" A \"", ",", K_cal, "\"A\"", "}">>

RecordNoName == <<"{", K_fat, "1", "}">>

RecipesJson(body) == <<"{", K_recipes>> \o body \o <<"}">>

\* the message contents the generative source answers with
GenTexts ==
    {RecipesJson(<<"[", "]">>),
     RecipesJson(<<"[">> \o RecordA \o <<"]">>),
     RecipesJson(<<"[">> \o RecordA \o <<",">> \o RecordB \o <<"]">>),
     RecipesJson(<<"[", "1", ",">> \o RecordNoName \o <<"]">>),
     RecipesJson(<<"[">> \o RecordA \o <<",", "1", ",">> \o RecordB \o <<"]">>),
     RecipesJson(<<"[", "1", ",", "null", "]">>),
     <<"Sure!", " ">> \o RecipesJson(<<"[">> \o RecordA \o <<"]">>)
        \o <<" ", "Enjoy!">>,
     <<"{", K_other, "1", "}">>,
     <<"[", "1", "]">>,
     <<"Sorry,", " ", "no", " ", "recipes.">>,
     <<"{", K_recipes, "[">> \o RecordA}

GenOutcomes ==
    {[kind |-> "exception", msg |-> <<"500 Server Error">>],
     [kind |-> "exception", msg |-> <<>>],
     [kind |-> "content", text |-> <<>>],
     [kind |-> "content", text |-> None]}
    \cup {[kind |-> "content", text |-> t] : t \in GenTexts}

(***************************************************************************)
(* api_utils.py: the pipeline.                                             *)
(***************************************************************************)
E_NoInput == <<"Please enter at least one ingredient.">>

E_NoFoods == <<"No foods found for these ingredients.">>

CombinedTerms == 5

ExpansionTerms == 3

ExpansionPageSize == 10

MaxRecipes == 8

NoResult == [recipes |-> <<>>, error |-> None, source |-> "-"]

\* Return that tags an error result with a source too
ReturnAlwaysTagged(rs, e, src) ==
    [recipes |-> rs, error |-> e, source |-> IF src = "" THEN "ollama" ELSE src]

\* fetch_recipes_for_ingredients and _ollama_fallback: the returned triple
Return(rs, e, src) == [recipes |-> rs, error |-> e, source |-> src]

\* one client call: the operation, its query, whether a network request was
\* sent; for an enrichment lookup the recipe it serves and the nutrition it
\* yielded (EmptyNutrients when it yielded none)
LogEntry(op, query, sent, recipe, nut) ==
    [op |-> op, query |-> query, sent |-> sent, recipe |-> recipe, nut |-> nut]

\* the words of the spec's denylist, and the spec's two ways of matching a
\* term against it (whole word, substring)
Denylist == {<<"x">>}

RECURSIVE NonEmpty(_)
NonEmpty(parts) ==
    IF parts = <<>> THEN <<>>
    ELSE IF Head(parts) # <<>> THEN <<Head(parts)>> \o NonEmpty(Tail(parts))
    ELSE NonEmpty(Tail(parts))

Words(term) == NonEmpty(Split(term, " "))

HasDenylistedWord(term) ==
    \E i \in 1..Len(Words(term)) : Words(term)[i] \in Denylist

HasDenylistedSubstring(term) ==
    \E i \in 1..Len(term) : \E j \in i..Len(term) : SubSeq(term, i, j) \in Denylist

\* NoIngredients that also rejects a term by substring match
NoIngredientsOrSubstring(terms) ==
    terms = <<>> \/ \E i \in 1..Len(terms) : HasDenylistedSubstring(terms[i])

\* fetch_recipes_for_ingredients, line 75
NoIngredients(terms) == terms = <<>>

\* AcceptsCombined that wants more than one food
AcceptsCombinedSeveral(fs, e) == ~Truthy(e) /\ Len(fs) > 1

\* fetch_recipes_for_ingredients, line 85
AcceptsCombined(fs, e) == ~Truthy(e) /\ fs # <<>>

\* AcceptsExpanded that wants more than one food
AcceptsExpandedSeveral(fs) == Len(fs) > 1

\* fetch_recipes_for_ingredients, line 106
AcceptsExpanded(fs) == fs # <<>>

\* FallbackError that leaves the USDA reason out
FallbackErrorOllamaOnly(usda_err, e) ==
    <<"USDA had no foods. Ollama fallback: ">> \o e

\* _ollama_fallback, line 131
FallbackError(usda_err, e) ==
    <<"USDA had no foods (">> \o usda_err \o <<"). Ollama fallback: ">> \o e

\* _enrich_recipe_with_usda_nutrition, lines 29-31, and
\* estimate_recipe_nutrition_from_ingredients, line 167: the terms looked up
IngList(recipe) ==
    Prefix(IF recipe.ingredients # <<>> THEN recipe.ingredients
           ELSE <<recipe.recipe_name>>, MaxLookups)

\* _enrich_recipe_with_usda_nutrition, lines 33-39
ApplyEstimate(recipe, e) ==
    IF ~Truthy(e.err) /\ ~e.is_none
    THEN [recipe EXCEPT !.calories = e.nut.calories,
                        !.protein_g = e.nut.protein,
                        !.carbs_g = e.nut.carbohydrate,
                        !.fat_g = e.nut.fat,
                        !.nutrition_source = Some("usda")]
    ELSE recipe

\* nothing parsed, nothing extracted
NoParse == [result |-> <<>>, err |-> None, exc |-> None]

NoExtract == [nut |-> EmptyNutrients, exc |-> None]

NoSearchCall ==
    [search_expression |-> <<>>, api_key |-> None, page_size |-> 1,
     outcome |-> [kind |-> "timeout"]]

NoSearch == [data |-> NoData, err |-> None, sent |-> FALSE]

UnitIdle ==
    /\ lead = <<>>
    /\ resp_body = <<>>
    /\ trail = <<>>
    /\ kind = "none"
    /\ resp_entries = <<>>
    /\ parse_out = NoParse
    /\ usda_food = Food(Absent, "", <<>>)
    /\ extract_out = NoExtract
    /\ search_call = NoSearchCall
    /\ search_out = NoSearch

\* the variables of an invocation that an enrichment does not start from
CallIdleBut ==
    /\ OLLAMA_API_KEY = None
    /\ ingredients_text = <<>>
    /\ max_results_per_search = 1
    /\ ollama_api_key = None
    /\ fdc_api_key = None
    /\ ingredients = <<>>
    /\ foods = <<>>
    /\ err = None
    /\ all_foods = <<>>
    /\ seen_ids = {}
    /\ ing_i = 1
    /\ acc = ZeroAcc
    /\ usda_error = None
    /\ gen_err = None
    /\ result = NoResult
    /\ log = <<>>

\* no invocation of the pipeline under way
CallIdle ==
    /\ CallIdleBut
    /\ FDC_API_KEY = None
    /\ idx = 0
    /\ parsed = <<>>
    /\ recipes = <<>>

Init ==
    /\ UnitIdle
    /\ FDC_API_KEY \in KeyOptions
    /\ OLLAMA_API_KEY \in KeyOptions
    /\ pc = "idle"
    /\ ingredients_text = <<>>
    /\ max_results_per_search = 1
    /\ ollama_api_key = None
    /\ fdc_api_key = None
    /\ ingredients = <<>>
    /\ foods = <<>>
    /\ err = None
    /\ all_foods = <<>>
    /\ seen_ids = {}
    /\ idx = 0
    /\ ing_i = 1
    /\ acc = ZeroAcc
    /\ usda_error = None
    /\ gen_err = None
    /\ parsed = <<>>
    /\ recipes = <<>>
    /\ result = NoResult
    /\ raised = None
    /\ log = <<>>

\* fetch_recipes_for_ingredients, lines 42-76: the call and input parsing
Invoke ==
    /\ pc = "idle"
    /\ \E text \in IngredientTexts, m \in MaxResultsOptions,
          ok \in KeyOptions, fk \in KeyOptions :
        /\ ingredients_text' = text
        /\ max_results_per_search' = m
        /\ ollama_api_key' = ok
        /\ fdc_api_key' = fk
        /\ IF ~Truthy(text) \/ ~Truthy(Strip(text))
           THEN /\ ingredients' = <<>>
                /\ result' = Return(<<>>, E_NoInput, "")
                /\ pc' = "done"
           ELSE /\ ingredients' = ParseIngredients(text)
                /\ IF NoIngredients(ingredients')
                   THEN result' = Return(<<>>, E_NoInput, "") /\ pc' = "done"
                   ELSE result' = result /\ pc' = "combined"
    /\ UNCHANGED <<FDC_API_KEY, OLLAMA_API_KEY, ing_i, acc, foods, err, all_foods,
                   seen_ids, idx, usda_error, gen_err, parsed,
                   recipes, raised, log>>
    /\ UNCHANGED unit_vars

\* fetch_recipes_for_ingredients, lines 79-95: the combined search, answered
\* with one of outs
CombinedSearchOn(outs) ==
    /\ pc = "combined"
    /\ \E out \in outs :
        LET combined == Join(<<" ">>, Prefix(ingredients, CombinedTerms))
            r == search_foods_as_recipes(combined, fdc_api_key,
                                         max_results_per_search, out)
        IN  /\ log' = Append(log, LogEntry("combined", combined, r.sent, 0, EmptyNutrients))
            /\ IF r.exc # None
               THEN /\ raised' = r.exc
                    /\ pc' = "raised"
                    /\ UNCHANGED <<foods, err, result, all_foods, seen_ids, idx>>
               ELSE /\ foods' = r.result
                    /\ err' = r.err
                    /\ raised' = raised
                    /\ IF AcceptsCombined(r.result, r.err)
                       THEN /\ result' = Return(r.result, None, "usda")
                            /\ pc' = "done"
                            /\ UNCHANGED <<all_foods, seen_ids, idx>>
                       ELSE IF ~Truthy(r.err)
                       THEN /\ all_foods' = r.result
                            /\ seen_ids' = {r.result[i].recipe_id :
                                              i \in {k \in 1..Len(r.result) :
                                                Truthy(r.result[k].recipe_id)}}
                            /\ idx' = 1
                            /\ pc' = "expand"
                            /\ result' = result
                       ELSE /\ pc' = "fallback"
                            /\ UNCHANGED <<result, all_foods, seen_ids, idx>>
    /\ UNCHANGED <<FDC_API_KEY, OLLAMA_API_KEY, ing_i, acc, ingredients_text,
                   max_results_per_search, ollama_api_key, fdc_api_key,
                   ingredients, usda_error, gen_err, parsed, recipes>>
    /\ UNCHANGED unit_vars

CombinedSearch ==
    CombinedSearchOn(UsdaOutcomes(Min(max_results_per_search, PageSizeCap)))

\* fetch_recipes_for_ingredients, lines 101-105: merge of one search
RECURSIVE MergeFoods(_, _, _)
MergeFoods(more, seen, sofar) ==
    IF more = <<>> THEN [seen |-> seen, all |-> sofar]
    ELSE LET rid == Head(more).recipe_id
         IN  IF Truthy(rid) /\ rid \notin seen
             THEN MergeFoods(Tail(more), seen \cup {rid}, Append(sofar, Head(more)))
             ELSE MergeFoods(Tail(more), seen, sofar)

\* ExpansionDone that searches every term, not the first three
ExpansionDoneEveryTerm ==
    \/ idx > Len(ingredients)
    \/ Len(all_foods) >= max_results_per_search * 2

\* fetch_recipes_for_ingredients, lines 96-98: the loop is over
ExpansionDone ==
    \/ idx > Len(Prefix(ingredients, ExpansionTerms))
    \/ Len(all_foods) >= max_results_per_search * 2

\* fetch_recipes_for_ingredients, lines 96-105: one per-ingredient search
ExpandStep ==
    /\ pc = "expand"
    /\ ~ExpansionDone
    /\ \E out \in UsdaOutcomes(Min(ExpansionPageSize, PageSizeCap)) :
        LET ing == ingredients[idx]
            r == search_foods_as_recipes(ing, fdc_api_key, ExpansionPageSize, out)
        IN  /\ log' = Append(log, LogEntry("ingredient", ing, r.sent, 0, EmptyNutrients))
            /\ IF r.exc # None
               THEN /\ raised' = r.exc
                    /\ pc' = "raised"
                    /\ UNCHANGED <<all_foods, seen_ids, idx>>
               ELSE /\ UNCHANGED <<raised, pc>>
                    /\ idx' = idx + 1
                    /\ IF ~Truthy(r.err)
                       THEN LET mg == MergeFoods(r.result, seen_ids, all_foods)
                            IN  all_foods' = mg.all /\ seen_ids' = mg.seen
                       ELSE UNCHANGED <<all_foods, seen_ids>>
    /\ UNCHANGED <<FDC_API_KEY, OLLAMA_API_KEY, ing_i, acc, ingredients_text,
                   max_results_per_search, ollama_api_key, fdc_api_key,
                   ingredients, foods, err, usda_error, gen_err,
                   parsed, recipes, result>>
    /\ UNCHANGED unit_vars

\* fetch_recipes_for_ingredients, lines 97-98 and 106-107: end of the loop
ExpandEnd ==
    /\ pc = "expand"
    /\ ExpansionDone
    /\ IF AcceptsExpanded(all_foods)
       THEN result' = Return(all_foods, None, "usda") /\ pc' = "done"
       ELSE result' = result /\ pc' = "fallback"
    /\ UNCHANGED <<FDC_API_KEY, OLLAMA_API_KEY, ing_i, acc, ingredients_text,
                   max_results_per_search, ollama_api_key, fdc_api_key,
                   ingredients, foods, err, all_foods, seen_ids, idx,
                   usda_error, gen_err, parsed, recipes, raised, log>>
    /\ UNCHANGED unit_vars

\* fetch_recipes_for_ingredients, lines 110-115, and _ollama_fallback,
\* lines 128-131: the generative request and its parse
Fallback ==
    /\ pc = "fallback"
    /\ \E out \in GenOutcomes :
        LET ue == Or(err, E_NoFoods)
            g == generate_recipes_with_nutrition(ingredients, ollama_api_key,
                                                 MaxRecipes, out)
        IN  /\ usda_error' = ue
            /\ log' = Append(log, LogEntry("generative", Join(<<", ">>, ingredients),
                                           g.sent, 0, EmptyNutrients))
            /\ IF g.exc # None
               THEN /\ raised' = g.exc
                    /\ pc' = "raised"
                    /\ UNCHANGED <<gen_err, parsed, recipes, result, idx>>
               ELSE /\ raised' = raised
                    /\ gen_err' = g.err
                    /\ parsed' = g.result
                    /\ IF Truthy(g.err)
                       THEN /\ result' = Return(<<>>, FallbackError(ue, g.err), "")
                            /\ pc' = "done"
                            /\ UNCHANGED <<recipes, idx>>
                       ELSE /\ recipes' = g.result
                            /\ idx' = 1
                            /\ pc' = "enrich"
                            /\ result' = result
    /\ UNCHANGED <<FDC_API_KEY, OLLAMA_API_KEY, ing_i, acc, ingredients_text,
                   max_results_per_search, ollama_api_key, fdc_api_key,
                   ingredients, foods, err, all_foods, seen_ids>>
    /\ UNCHANGED unit_vars

\* _ollama_fallback, lines 132-133: one USDA lookup of the enrichment of
\* recipes[idx] (estimate_recipe_nutrition_from_ingredients, lines 166-173)
\* and, after the last lookup of the recipe, its update (lines 174-176 and
\* _enrich_recipe_with_usda_nutrition, lines 33-39)
EnrichLookupOn(outs) ==
    /\ pc = "enrich"
    /\ idx <= Len(recipes)
    /\ \E out \in outs :
        LET ings == IngList(recipes[idx])
            q == Strip(ings[ing_i])
            g == get_nutrition_for_food(q, fdc_api_key, out)
            acc2 == LookupAdd(acc, g)
        IN  /\ log' = Append(log, LogEntry("lookup", q, g.sent, idx,
                                           IF g.exc = None THEN g.nut
                                           ELSE EmptyNutrients))
            /\ IF g.exc # None
               THEN /\ raised' = g.exc
                    /\ pc' = "raised"
                    /\ UNCHANGED <<recipes, idx, ing_i, acc>>
               ELSE /\ UNCHANGED <<raised, pc>>
                    /\ IF ing_i < Len(ings)
                       THEN /\ acc' = acc2
                            /\ ing_i' = ing_i + 1
                            /\ UNCHANGED <<recipes, idx>>
                       ELSE /\ recipes' = [recipes EXCEPT ![idx] =
                                  ApplyEstimate(recipes[idx], EstimateResult(acc2))]
                            /\ idx' = idx + 1
                            /\ ing_i' = 1
                            /\ acc' = ZeroAcc
    /\ UNCHANGED <<FDC_API_KEY, OLLAMA_API_KEY, ingredients_text,
                   max_results_per_search, ollama_api_key, fdc_api_key,
                   ingredients, foods, err, all_foods, seen_ids, usda_error,
                   gen_err, parsed, result>>
    /\ UNCHANGED unit_vars

EnrichLookup == EnrichLookupOn(UsdaOutcomes(1))

\* _ollama_fallback, line 134: return of the enriched recipes
FallbackReturn ==
    /\ pc = "enrich"
    /\ idx > Len(recipes)
    /\ result' = Return(recipes, None, "ollama")
    /\ pc' = "done"
    /\ UNCHANGED <<FDC_API_KEY, OLLAMA_API_KEY, ing_i, acc, ingredients_text,
                   max_results_per_search, ollama_api_key, fdc_api_key,
                   ingredients, foods, err, all_foods, seen_ids, idx,
                   usda_error, gen_err, parsed, recipes, raised, log>>
    /\ UNCHANGED unit_vars

Next ==
    \/ Invoke
    \/ CombinedSearch
    \/ ExpandStep
    \/ ExpandEnd
    \/ Fallback
    \/ EnrichLookup
    \/ FallbackReturn

Spec == Init /\ [][Next]_vars

(***************************************************************************)
(* _ollama_fallback's enrichment loop on its own: the recipes handed to    *)
(* _enrich_recipe_with_usda_nutrition may carry an ingredient list, which  *)
(* the recipes of the Response Parser never do.                            *)
(***************************************************************************)
MaxIngredients == 2   \* ingredients of a recipe handed to the enrichment

EnrichTerms == {<<"a">>, <<" ", "b">>}

EnrichRecipe(name, ings) ==
    [recipe_id |-> <<"ollama-", "0">>,
     recipe_name |-> name,
     recipe_description |-> <<>>,
     calories |-> Some(7),
     protein_g |-> Absent,
     carbs_g |-> Some(0),
     fat_g |-> Absent,
     ingredients |-> ings,
     recipe_image |-> None,
     nutrition_source |-> Absent]

EnrichInputs ==
    {EnrichRecipe(name, ings) :
        name \in {<<"A">>, <<>>},
        ings \in UNION {[1..n -> EnrichTerms] : n \in 0..MaxIngredients}}

InitEnrich ==
    /\ UnitIdle
    /\ FDC_API_KEY \in KeyOptions
    /\ OLLAMA_API_KEY = None
    /\ pc = "enrich"
    /\ ingredients_text = <<>>
    /\ max_results_per_search = 1
    /\ ollama_api_key = None
    /\ fdc_api_key \in KeyOptions
    /\ ingredients = <<>>
    /\ foods = <<>>
    /\ err = None
    /\ all_foods = <<>>
    /\ seen_ids = {}
    /\ idx = 1
    /\ ing_i = 1
    /\ acc = ZeroAcc
    /\ usda_error = None
    /\ gen_err = None
    /\ \E r \in EnrichInputs : parsed = <<r>> /\ recipes = <<r>>
    /\ result = NoResult
    /\ raised = None
    /\ log = <<>>

NextEnrich ==
    \/ EnrichLookup
    \/ FallbackReturn

SpecEnrich == InitEnrich /\ [][NextEnrich]_vars

(***************************************************************************)
(* The pipeline together with an enrichment of a recipe that lists more    *)
(* ingredients than estimate_recipe_nutrition_from_ingredients looks up.   *)
(* The lookups are answered with a failure, a body that is no object, or   *)
(* one food.                                                               *)
(***************************************************************************)
LongList == [i \in 1..(MaxLookups + 1) |-> <<"a">>]

FewOutcomes ==
    {[kind |-> "timeout"],
     [kind |-> "json", body |-> [kind |-> "not_object", foods |-> <<>>]]}
    \cup {[kind |-> "json", body |-> [kind |-> "foods", foods |-> <<fd>>]] :
            fd \in {f \in FoodRecords : f.description = <<"CHICKEN">>}}

InitLong ==
    /\ UnitIdle
    /\ CallIdleBut
    /\ FDC_API_KEY = <<"key">>
    /\ pc = "enrich"
    /\ raised = None
    /\ idx = 1
    /\ parsed = <<EnrichRecipe(<<"A">>, LongList), EnrichRecipe(<<"B">>, <<>>)>>
    /\ recipes = parsed

InitCalls == Init \/ InitLong

EnrichLookupFew == EnrichLookupOn(FewOutcomes)

NextCalls ==
    \/ Invoke
    \/ CombinedSearch
    \/ ExpandStep
    \/ ExpandEnd
    \/ Fallback
    \/ EnrichLookupFew
    \/ FallbackReturn

SpecCalls == InitCalls /\ [][NextCalls]_vars

(***************************************************************************)
(* _parse_ollama_recipes_json on its own.  A response text is lead, body   *)
(* and trail put together; body is a recipes object built from a list of   *)
(* entries, or one of the other texts a generative source may answer with. *)
(***************************************************************************)
MaxEntries == 2       \* entries of the recipes list of a response text

RecordEmpty == <<"{", "}">>

\* the object records of a recipes list
RecordEntries == {RecordA, RecordB, RecordNoName, RecordEmpty}

\* entries that are not objects: number, null, string, nested list
OtherEntries == {<<"1">>, <<"null">>, <<"\"A\"">>, <<"[", "1", "]">>}

ListEntries == RecordEntries \cup OtherEntries

\* the recipe_name a record was written with
EntryHasName(e) == e \in {RecordA, RecordB}

EntryName(e) == IF e = RecordA THEN <<"A">> ELSE <<" ", "A", " ">>

RECURSIVE CommaJoin(_)
CommaJoin(es) ==
    IF es = <<>> THEN <<>>
    ELSE IF Len(es) = 1 THEN es[1]
    ELSE es[1] \o <<",">> \o CommaJoin(Tail(es))

ListText(es) == <<"[">> \o CommaJoin(es) \o <<"]">>

EntryLists == UNION {[1..n -> ListEntries] : n \in 0..MaxEntries}

\* texts that are not JSON: prose, a truncated object, a missing comma, a
\* trailing comma, an object closed twice
InvalidBodies ==
    {<<"Sorry,", " ", "no", " ", "recipes.">>,
     <<"{", K_recipes, "[">> \o RecordA,
     RecipesJson(<<"[">> \o RecordA \o RecordB \o <<"]">>),
     RecipesJson(<<"[">> \o RecordA \o <<",", "]">>),
     RecipesJson(<<"[">> \o RecordA \o <<"]">>) \o <<"}">>}

\* JSON that is not an object
NonObjectBodies == {<<"[", "1", "]">>, <<"7">>, <<"null">>, ListText(<<RecordA>>)}

\* objects whose recipes field is no list: a scalar, a boolean, a string,
\* null, a single record, or missing
ScalarRecipesBodies ==
    {RecipesJson(<<"7">>), RecipesJson(<<"0">>), RecipesJson(<<"true">>),
     RecipesJson(<<"false">>), RecipesJson(<<"\"A\"">>), RecipesJson(<<"null">>),
     RecipesJson(RecordA), <<"{", K_other, "1", "}">>}

\* prose without braces, and prose with braces
Leads == {<<>>, <<"Sure!", " ">>, <<"done", "}", " ">>, <<"Use", "{", "braces", "}", ":">>}

Trails == {<<>>, <<" ", "Enjoy!">>, <<" ", "{", "more">>, <<" ", ":", "}">>}

InitParse ==
    /\ CallIdle
    /\ pc = "parse"
    /\ raised = None
    /\ lead \in Leads
    /\ trail \in Trails
    /\ \/ /\ kind = "list"
          /\ resp_entries \in EntryLists
          /\ resp_body = RecipesJson(ListText(resp_entries))
       \/ /\ kind = "invalid"
          /\ resp_entries = <<>>
          /\ resp_body \in InvalidBodies
       \/ /\ kind = "not_object"
          /\ resp_entries = <<>>
          /\ resp_body \in NonObjectBodies
       \/ /\ kind = "scalar_recipes"
          /\ resp_entries = <<>>
          /\ resp_body \in ScalarRecipesBodies
    /\ parse_out = NoParse
    /\ usda_food = Food(Absent, "", <<>>)
    /\ extract_out = NoExtract
    /\ search_call = NoSearchCall
    /\ search_out = NoSearch

\* one call _parse_ollama_recipes_json(lead + body + trail)
Parse ==
    /\ pc = "parse"
    /\ LET p == _parse_ollama_recipes_json(lead \o resp_body \o trail)
       IN  /\ parse_out' = p
           /\ raised' = p.exc
           /\ pc' = IF p.exc # None THEN "raised" ELSE "parsed"
    /\ UNCHANGED <<lead, resp_body, trail, kind, resp_entries, usda_food, extract_out,
                   search_call, search_out>>
    /\ UNCHANGED call_vars

NextParse == Parse

SpecParse == InitParse /\ [][NextParse]_vars

(***************************************************************************)
(* Properties.                                                             *)
(***************************************************************************)
LogIndex == 1..Len(log)

Issued(op) == \E i \in LogIndex : log[i].op = op

Contains(s, part) ==
    \E i \in 1..(Len(s) - Len(part) + 1) : SubSeq(s, i, i + Len(part) - 1) = part

FlaggedTerms == {i \in 1..Len(ingredients) : HasDenylistedWord(ingredients[i])}

\* C1: when some parsed term contains a denylisted whole word, the
\* invocation sends no external request at all and its result is a terminal
\* error that names every flagged term, with no candidates.
C1_FlaggedInputAborts ==
    (pc # "idle" /\ FlaggedTerms # {}) =>
        /\ \A i \in LogIndex : ~log[i].sent
        /\ pc # "raised"
        /\ pc = "done" =>
            /\ result.recipes = <<>>
            /\ Truthy(result.error)
            /\ \A t \in FlaggedTerms : Contains(result.error, ingredients[t])

SubstringOnly ==
    /\ \E i \in 1..Len(ingredients) : HasDenylistedSubstring(ingredients[i])
    /\ FlaggedTerms = {}

\* C2: when a term contains a denylisted word only inside a larger word and
\* no term contains a denylisted whole word, the input is not rejected: the
\* invocation goes on to the combined structured query, which is the first
\* call it makes, over the first five terms.
C2_SubstringTermProceeds ==
    (pc # "idle" /\ SubstringOnly) =>
        \/ pc = "combined" /\ log = <<>>
        \/ /\ log # <<>>
           /\ log[1].op = "combined"
           /\ log[1].query = Join(<<" ">>, Prefix(ingredients, CombinedTerms))

C2_Witness ==
    /\ SubstringOnly
    /\ log # <<>>
    /\ log[1].op = "combined"
    /\ log[1].sent

\* C3: when the combined query returned one or more candidates and no error,
\* the invocation has returned exactly those candidates with source "usda"
\* and no error, the combined query is the only call it made (no generative
\* request, no per-ingredient search, no enrichment lookup), and no returned
\* candidate carries a nutrition-provenance override.
C3_StructuredResultAccepted ==
    (foods # <<>> /\ ~Truthy(err)) =>
        /\ pc = "done"
        /\ result = Return(foods, None, "usda")
        /\ Len(log) = 1
        /\ log[1].op = "combined"
        /\ \A i \in 1..Len(result.recipes) :
              result.recipes[i].nutrition_source = Absent

C3_Witness ==
    /\ pc = "done"
    /\ Len(foods) >= 2
    /\ ~Truthy(err)
    /\ result.source = "usda"
    /\ log[1].sent

\* C4: a generative request is made only after the structured path gave no
\* candidate: it is never the first call, the combined query is, every call
\* before it is a structured search, and at that point the combined query
\* had returned an error, or it had returned no candidate and the
\* per-ingredient searches made had added none.
C4_GenerativeOnlyAfterStructured ==
    \A i \in LogIndex :
        log[i].op = "generative" =>
            /\ i > 1
            /\ log[1].op = "combined"
            /\ \A j \in 1..(i - 1) : log[j].op \in {"combined", "ingredient"}
            /\ Truthy(err) \/ (foods = <<>> /\ all_foods = <<>>)

C4_Witness ==
    \E i \in LogIndex :
        /\ log[i].op = "generative"
        /\ log[i].sent
        /\ ~Truthy(err)
        /\ \E j \in 1..(i - 1) : log[j].op = "ingredient" /\ log[j].sent

\* C5: every returned result has (a) never both an error message and
\* candidates, and (b) a source tag only when it has candidates.
C5_ResultInvariant ==
    pc = "done" =>
        /\ ~(Truthy(result.error) /\ result.recipes # <<>>)
        /\ result.source # "" => result.recipes # <<>>

GenerativeAnswered ==
    /\ \E i \in LogIndex : log[i].op = "generative" /\ log[i].sent
    /\ gen_err \in {None, E_JsonParse}

\* C6: when the generative call succeeded and the Response Parser gave a
\* parse failure or an empty candidate list, the invocation returns a
\* terminal error: an error message and no candidates.
C6_EmptyParseIsError ==
    (pc = "done" /\ GenerativeAnswered
        /\ (gen_err = E_JsonParse \/ parsed = <<>>)) =>
        /\ Truthy(result.error)
        /\ result.recipes = <<>>

GenerativeFailed ==
    /\ Issued("generative")
    /\ Truthy(gen_err)
    /\ gen_err # E_JsonParse

\* C7: when the generative source failed (no credential, transport or
\* status failure, empty response), the invocation returns no candidates and
\* one error message that contains the generative failure reason and, when
\* the combined structured query failed, that reason too; it made no
\* enrichment lookup.
C7_GenerativeFailureReported ==
    (pc = "done" /\ GenerativeFailed) =>
        /\ result.recipes = <<>>
        /\ result.source = ""
        /\ Truthy(result.error)
        /\ Contains(result.error, gen_err)
        /\ Truthy(err) => Contains(result.error, err)
        /\ ~Issued("lookup")

C7_Witness ==
    /\ pc = "done"
    /\ GenerativeFailed
    /\ err = E_Timeout
    /\ gen_err = <<"500 Server Error">>

\* the sum, over the lookups the log holds for recipe j, of the values of
\* macro field f that the lookups yielded
RECURSIVE SumYielded(_, _, _)
SumYielded(entries, j, f) ==
    IF entries = <<>> THEN 0
    ELSE (IF Head(entries).op = "lookup" /\ Head(entries).recipe = j
             /\ Head(entries).nut[f] # Absent
          THEN Head(entries).nut[f][1] ELSE 0)
         + SumYielded(Tail(entries), j, f)

YieldedNonzero(j) ==
    \E i \in LogIndex :
        /\ log[i].op = "lookup"
        /\ log[i].recipe = j
        /\ \/ log[i].nut.calories \notin {Absent, Some(0)}
           \/ log[i].nut.protein \notin {Absent, Some(0)}

\* C8: for every recipe whose enrichment has finished: when the calories and
\* the protein summed over its lookups are both zero the recipe is exactly
\* as the generative source gave it, with no nutrition-provenance; otherwise
\* its four macro fields are the four sums and its nutrition-provenance is
\* "usda".  The nutrition-provenance is "usda" exactly when some lookup of
\* the recipe yielded nonzero calories or protein.
C8_EnrichmentSums ==
    pc \in {"enrich", "done"} =>
        \A j \in 1..Len(recipes) :
            j < idx =>
                /\ IF SumYielded(log, j, "calories") = 0
                      /\ SumYielded(log, j, "protein") = 0
                   THEN recipes[j] = parsed[j]
                   ELSE /\ recipes[j].calories = Some(SumYielded(log, j, "calories"))
                        /\ recipes[j].protein_g = Some(SumYielded(log, j, "protein"))
                        /\ recipes[j].carbs_g = Some(SumYielded(log, j, "carbohydrate"))
                        /\ recipes[j].fat_g = Some(SumYielded(log, j, "fat"))
                        /\ recipes[j].nutrition_source = Some("usda")
                /\ recipes[j].nutrition_source = Some("usda") <=> YieldedNonzero(j)

C8_Witness ==
    /\ pc = "done"
    /\ Len(recipes) = 1
    /\ Len(recipes[1].ingredients) = 2
    /\ recipes[1].calories = Some(2)
    /\ recipes[1].carbs_g = Some(1)
    /\ recipes[1].nutrition_source = Some("usda")

EnrichmentStarted == Issued("generative") /\ ~Truthy(gen_err) /\ pc # "fallback"

SameIdentity(r, p) ==
    /\ r.recipe_id = p.recipe_id
    /\ r.recipe_name = p.recipe_name
    /\ r.recipe_description = p.recipe_description
    /\ r.ingredients = p.ingredients
    /\ r.recipe_image = p.recipe_image

\* C9: enrichment of the generative candidates changes only the macro
\* fields and the nutrition-provenance of a candidate: number, order,
\* identifiers, names, descriptions and ingredient lists stay, a candidate
\* not yet reached is untouched, and no failed lookup ends the enrichment:
\* the candidates are not lost to it.
C9_EnrichmentFrame ==
    EnrichmentStarted =>
        /\ Len(recipes) = Len(parsed)
        /\ \A j \in 1..Len(recipes) :
              /\ SameIdentity(recipes[j], parsed[j])
              /\ j >= idx => recipes[j] = parsed[j]
        /\ ~(pc = "raised" /\ Issued("lookup"))
        /\ pc = "done" => result.recipes = recipes

IsSeparator(c) == c \in {" ", ",", ";"}

NoTermIn(text) == \A i \in 1..Len(text) : IsSeparator(text[i])

\* C10: when the ingredient text holds nothing but white space, commas and
\* semicolons, the invocation returns the "no ingredients" error with no
\* candidates and an empty source tag and makes no external call; and every
\* term it keeps is non-empty with no white space at either end.
C10_NoIngredientsError ==
    pc # "idle" =>
        /\ NoTermIn(ingredients_text) =>
              /\ pc = "done"
              /\ result = Return(<<>>, E_NoInput, "")
              /\ log = <<>>
        /\ \A i \in 1..Len(ingredients) :
              /\ ingredients[i] # <<>>
              /\ ~IsSpace(ingredients[i][1])
              /\ ~IsSpace(ingredients[i][Len(ingredients[i])])
              /\ \A n \in 1..Len(ingredients[i]) : ingredients[i][n] \notin {",", ";"}

C10_Witness ==
    /\ pc = "done"
    /\ ingredients_text = <<" ", ",", ";", " ">>
    /\ result.error = E_NoInput

(***************************************************************************)
(* _extract_nutrients on its own, on food records whose foodNutrients are  *)
(* every list of a few (nutrientId, value) pairs.                          *)
(***************************************************************************)
MaxNutrients == 2     \* entries of the foodNutrients of a food record

\* a nutrient identifier that _extract_nutrients does not look for
NUTRIENT_OTHER == 1087

NutrientIds ==
    {NUTRIENT_ENERGY, NUTRIENT_PROTEIN, NUTRIENT_CARBS, NUTRIENT_FAT, NUTRIENT_OTHER}

NutrientValues == {VNum(0), VNum(1), VNull, VText}

NutrientLists ==
    UNION {[1..n -> {Nutrient(id, v) : id \in NutrientIds, v \in NutrientValues}] :
              n \in 0..MaxNutrients}

InitExtract ==
    /\ CallIdle
    /\ pc = "extract"
    /\ raised = None
    /\ lead = <<>>
    /\ resp_body = <<>>
    /\ trail = <<>>
    /\ kind = "none"
    /\ resp_entries = <<>>
    /\ parse_out = NoParse
    /\ \E ns \in NutrientLists : usda_food = Food(Some(1), "FOOD", ns)
    /\ extract_out = NoExtract
    /\ search_call = NoSearchCall
    /\ search_out = NoSearch

\* one call _extract_nutrients(usda_food)
Extract ==
    /\ pc = "extract"
    /\ LET x == _extract_nutrients(usda_food)
       IN  /\ extract_out' = x
           /\ raised' = x.exc
           /\ pc' = IF x.exc # None THEN "raised" ELSE "extracted"
    /\ UNCHANGED <<lead, resp_body, trail, kind, resp_entries, parse_out, usda_food,
                   search_call, search_out>>
    /\ UNCHANGED call_vars

NextExtract == Extract

SpecExtract == InitExtract /\ [][NextExtract]_vars

HasChunk(s, c) == \E i \in 1..Len(s) : s[i] = c

\* the prose puts a "{" before the JSON or a "}" after it
BraceWrapped == HasChunk(lead, "{") \/ HasChunk(trail, "}")

AllRecords == \A i \in 1..Len(resp_entries) : resp_entries[i] \in RecordEntries

\* the positions of the object records among the entries, in order
RECURSIVE RecordPositions(_, _)
RecordPositions(es, i) ==
    IF i > Len(es) THEN <<>>
    ELSE (IF es[i] \in RecordEntries THEN <<i>> ELSE <<>>)
         \o RecordPositions(es, i + 1)

Returned(rs) == pc = "parsed" /\ parse_out = [result |-> rs, err |-> None, exc |-> None]

WellFormedRecords ==
    /\ pc # "parse"
    /\ kind = "list"
    /\ lead = <<>>
    /\ trail = <<>>
    /\ AllRecords

\* C11 as stated: for a well-formed object whose recipes list holds N object
\* records, the parser returns no error and N candidates in the order of the
\* records, the name of each equal to the recipe_name of its record.
C11_RoundTripNamesEqual ==
    WellFormedRecords =>
        /\ Returned(parse_out.result)
        /\ Len(parse_out.result) = Len(resp_entries)
        /\ \A i \in 1..Len(parse_out.result) :
              /\ parse_out.result[i].recipe_id = <<"ollama-", DigitStr(i - 1)>>
              /\ EntryHasName(resp_entries[i]) =>
                    parse_out.result[i].recipe_name = EntryName(resp_entries[i])

\* C11 amended: for a well-formed object whose recipes list holds N object
\* records, the parser returns no error and N candidates in the order of the
\* records, the name of each equal to the recipe_name of its record with the
\* white space at its two ends removed.
C11_RoundTripNamesStripped ==
    WellFormedRecords =>
        /\ Returned(parse_out.result)
        /\ Len(parse_out.result) = Len(resp_entries)
        /\ \A i \in 1..Len(parse_out.result) :
              /\ parse_out.result[i].recipe_id = <<"ollama-", DigitStr(i - 1)>>
              /\ EntryHasName(resp_entries[i]) =>
                    parse_out.result[i].recipe_name = Strip(EntryName(resp_entries[i]))

C11_Witness ==
    /\ WellFormedRecords
    /\ resp_entries = <<RecordB, RecordA>>
    /\ Len(parse_out.result) = 2
    /\ parse_out.result[1].recipe_name = <<"A">>

WrappedObject == pc # "parse" /\ kind \in {"list", "scalar_recipes"}

\* C12 as stated: for a well-formed recipes object and any prose before and
\* after it, the parser's outcome on the wrapped text is its outcome on the
\* object alone.
C12_AnyProseIgnored ==
    WrappedObject => parse_out = _parse_ollama_recipes_json(resp_body)

\* C12 amended: for a well-formed recipes object, prose before it that holds
\* no "{" and prose after it that holds no "}", the parser's outcome on the
\* wrapped text is its outcome on the object alone.
C12_BracelessProseIgnored ==
    (WrappedObject /\ ~BraceWrapped) =>
        parse_out = _parse_ollama_recipes_json(resp_body)

C12_Witness ==
    /\ WrappedObject
    /\ lead = <<"Sure!", " ">>
    /\ trail = <<" ", "Enjoy!">>
    /\ Len(resp_entries) = 2
    /\ Len(parse_out.result) = 2

\* the text handed to json.loads is not JSON
NotJson ==
    \/ kind = "invalid"
    \/ kind \in {"list", "scalar_recipes"} /\ BraceWrapped
    \/ /\ kind = "not_object"
       /\ ~HasChunk(resp_body, "{")
       /\ lead \o trail # <<>>

\* C13: when the span handed to the JSON decoder (the whole text when there
\* is no span) is not valid JSON, the parser returns the parse error with no
\* candidate at all.
C13_InvalidJsonIsParseError ==
    (pc # "parse" /\ NotJson) =>
        /\ pc = "parsed"
        /\ parse_out = [result |-> <<>>, err |-> E_JsonParse, exc |-> None]

C13_Witness ==
    /\ pc = "parsed"
    /\ lead = <<>>
    /\ trail = <<>>
    /\ resp_body = RecipesJson(<<"[">> \o RecordA \o <<"]">>) \o <<"}">>
    /\ parse_out.err = E_JsonParse

MixedList ==
    /\ pc # "parse"
    /\ kind = "list"
    /\ ~BraceWrapped

\* C14: when the recipes list mixes object records with entries that are
\* not objects, the parser returns no error and one candidate per object
\* record, in list order: the k-th candidate is built from the k-th object
\* record (its identifier carries that record's position, its name is that
\* record's name).
C14_NonObjectEntriesSkipped ==
    MixedList =>
        LET pos == RecordPositions(resp_entries, 1)
        IN  /\ Returned(parse_out.result)
            /\ Len(parse_out.result) = Len(pos)
            /\ \A k \in 1..Len(pos) :
                  /\ k <= Len(parse_out.result)
                  /\ parse_out.result[k].recipe_id = <<"ollama-", DigitStr(pos[k] - 1)>>
                  /\ EntryHasName(resp_entries[pos[k]]) =>
                        parse_out.result[k].recipe_name
                            = Strip(EntryName(resp_entries[pos[k]]))

C14_Witness ==
    /\ MixedList
    /\ resp_entries = <<<<"null">>, RecordA>>
    /\ Len(parse_out.result) = 1
    /\ parse_out.result[1].recipe_name = <<"A">>

\* C15: for every response text the parser returns a (candidates, error)
\* value and no exception leaves it; a macro field written as null or as a
\* string that is no number is absent in the candidate.
C15_ParserNeverRaises ==
    pc # "parse" =>
        /\ pc = "parsed"
        /\ parse_out.exc = None
        /\ MixedList =>
              LET pos == RecordPositions(resp_entries, 1)
              IN  \A k \in 1..Len(pos) :
                    /\ k <= Len(parse_out.result)
                    /\ resp_entries[pos[k]] = RecordA =>
                          parse_out.result[k].protein_g = Absent
                    /\ resp_entries[pos[k]] = RecordB =>
                          parse_out.result[k].calories = Absent

CallsOf(op) == SelectSeq(log, LAMBDA e : e.op = op)

LookupsOf(j) == SelectSeq(log, LAMBDA e : e.op = "lookup" /\ e.recipe = j)

\* the terms the enrichment of a recipe may look up: its ingredients, or its
\* name when it lists none
TermsOf(recipe) ==
    IF recipe.ingredients # <<>> THEN recipe.ingredients ELSE <<recipe.recipe_name>>

\* C17: one invocation makes at most 1 combined search, at most 3
\* per-ingredient searches, at most 1 generative request and at most 8
\* enrichment lookups per generative candidate; no call is a retry: the k-th
\* per-ingredient search is for the k-th term, the n-th lookup of a candidate
\* is for its n-th term, and there is never more than one call per term.
C17_CallsBounded ==
    /\ Len(CallsOf("combined")) <= 1
    /\ Len(CallsOf("generative")) <= 1
    /\ Len(CallsOf("ingredient")) <= 3
    /\ Len(CallsOf("ingredient")) <= Len(ingredients)
    /\ \A k \in 1..Len(CallsOf("ingredient")) :
          CallsOf("ingredient")[k].query = ingredients[k]
    /\ \A j \in 1..Len(parsed) :
          /\ Len(LookupsOf(j)) <= 8
          /\ Len(LookupsOf(j)) <= Len(TermsOf(parsed[j]))
          /\ \A n \in 1..Len(LookupsOf(j)) :
                LookupsOf(j)[n].query = Strip(TermsOf(parsed[j])[n])
    /\ \A i \in LogIndex : log[i].op = "lookup" => log[i].recipe \in 1..Len(parsed)

C17_Witness ==
    /\ pc = "done"
    /\ Len(parsed) = 2
    /\ Len(TermsOf(parsed[1])) = 9
    /\ Len(LookupsOf(1)) = 8
    /\ Len(LookupsOf(2)) = 1

\* C18: no failure of a source client or of the decoding of a response
\* leaves fetch_recipes_for_ingredients as an exception, and an invocation
\* that has not returned can always take its next step (with the calls of
\* an invocation bounded, it then ends by returning a result).
C18_AlwaysReturnsResult ==
    /\ pc # "raised"
    /\ raised = None
    /\ pc # "done" => ENABLED Next
    /\ pc = "done" => result # NoResult

\* the macro field of a profile that a nutrient identifier is written to
FieldOf(id) ==
    CASE id = 1008 -> "calories"
      [] id = 1003 -> "protein"
      [] id = 1005 -> "carbohydrate"
      [] id = 1004 -> "fat"

\* the food record reports a number for the nutrient
FoodReports(fd, id) ==
    \E n \in 1..Len(fd.foodNutrients) :
        /\ fd.foodNutrients[n].nutrientId = id
        /\ fd.foodNutrients[n].value.t = "num"

\* C19: the extraction of a food record never aborts, whatever the values
\* of its nutrients: it returns a Macro Profile, and every one of the four
\* nutrients for which the record holds a number is set in it.
C19_ConversionFailureTolerated ==
    pc # "extract" =>
        /\ pc = "extracted"
        /\ extract_out.exc = None
        /\ \A id \in {1008, 1003, 1005, 1004} :
              FoodReports(usda_food, id) => extract_out.nut[FieldOf(id)] # Absent

\* the candidate's macro fields and the nutrient each one holds
MacroFields ==
    {[c |-> "calories", id |-> 1008], [c |-> "protein_g", id |-> 1003],
     [c |-> "carbs_g", id |-> 1005], [c |-> "fat_g", id |-> 1004]}

\* a food record of this identifier and name reports the nutrient
StructuredReported(cand, id) ==
    \E fd \in FoodRecords :
        /\ StrOfId(fd.fdcId) = cand.recipe_id
        /\ fd.description = cand.recipe_name
        /\ FoodReports(fd, id)

\* the j-th generative candidate: the generative source reported the
\* nutrient and the value was kept, or a lookup of its enrichment yielded it
GenerativeReported(cand, j, m) ==
    \/ cand.nutrition_source = Absent /\ parsed[j][m.c] # Absent
    \/ \E i \in LogIndex :
          /\ log[i].op = "lookup"
          /\ log[i].recipe = j
          /\ log[i].nut[FieldOf(m.id)] # Absent

\* C20: in every candidate of a returned result a macro field has a value
\* only if a contributing source reported that nutrient: the food record for
\* a structured candidate; for a generative candidate the generative record,
\* or after enrichment some lookup of that candidate.
C20_AbsentIsNotZero ==
    pc = "done" =>
        \A j \in 1..Len(result.recipes) : \A m \in MacroFields :
            result.recipes[j][m.c] # Absent =>
                IF result.source = "usda"
                THEN StructuredReported(result.recipes[j], m.id)
                ELSE GenerativeReported(result.recipes[j], j, m)

(***************************************************************************)
(* A missing USDA key (nutrition_query.py:72-74, api_utils.py:78-134).     *)
(***************************************************************************)
\* neither the fdc_api_key argument nor the FDC_API_KEY default is set
NoFdcKey == ~Truthy(Or(fdc_api_key, FDC_API_KEY))

StructuredOps == {"combined", "ingredient", "lookup"}

\* C21: when the invocation has no USDA key (argument and default both
\* absent), no request is ever sent to USDA, by the combined search, by a
\* per-ingredient search or by an enrichment lookup; and when the generative
\* source then answered with N >= 1 parseable recipes, the invocation returns
\* exactly those N recipes as parsed (macro values unchanged, no
\* nutrition_source set) with no error and source "ollama".
C21_MissingFdcKeyFallsBack ==
    (pc # "idle" /\ NoFdcKey) =>
        /\ \A i \in LogIndex : log[i].op \in StructuredOps => ~log[i].sent
        /\ pc # "raised" \/ Issued("generative")
        /\ (pc = "done" /\ Issued("generative") /\ ~Truthy(gen_err)
              /\ parsed # <<>>) =>
                /\ result = Return(parsed, None, "ollama")
                /\ \A i \in 1..Len(result.recipes) :
                      result.recipes[i].nutrition_source = Absent

C21_Witness ==
    /\ pc = "done"
    /\ NoFdcKey
    /\ Len(parsed) = 2
    /\ result = Return(parsed, None, "ollama")
    /\ parsed[1].calories = Some(7)
    /\ Len(CallsOf("lookup")) = 2

(***************************************************************************)
(* An error object as the answer to the combined search                    *)
(* (nutrition_query.py:96-101 and 203, api_utils.py:85-115).               *)
(***************************************************************************)
\* the combined search sent its request in this step
CombinedSent == log'[Len(log')].op = "combined" /\ log'[Len(log')].sent

\* C22: a combined search that is answered 200 with an error object (no
\* "foods" list) leaves the pipeline where a transport error leaves it: with
\* the failure in err, so that it reaches the final error message, and at
\* the generative fallback, so that no per-ingredient search is issued.
C22_ErrorObjectIsAFailure ==
    [][(CombinedSearchOn({ErrorObject}) /\ CombinedSent) =>
          /\ pc' = "fallback"
          /\ Truthy(err')]_vars

(***************************************************************************)
(* Recipe ids of one result (nutrition_query.py:205-213,                   *)
(* api_utils.py:89-107, ai_utils.py:162-166).                              *)
(***************************************************************************)
DistinctIds(rs) ==
    \A i, j \in 1..Len(rs) : i # j => rs[i].recipe_id # rs[j].recipe_id

\* the position in the generative list that recipe_id "ollama-<i>" names
PositionOf(rid) == CHOOSE i \in 0..9 : rid = <<"ollama-", DigitStr(i)>>

\* C23: the recipe ids of a returned result are pairwise distinct. A "usda"
\* result, of the combined search or merged from several per-ingredient
\* searches, holds no id twice; an "ollama" result numbers its recipes by
\* their position in the decoded list, so the ids increase strictly along
\* the result, with gaps where entries were skipped.
C23_DistinctIds ==
    pc = "done" =>
        /\ DistinctIds(result.recipes)
        /\ result.source = "ollama" =>
              \A i, j \in 1..Len(result.recipes) :
                  i < j => PositionOf(result.recipes[i].recipe_id)
                             < PositionOf(result.recipes[j].recipe_id)

(***************************************************************************)
(* The per-ingredient searches (api_utils.py:88-107).                      *)
(***************************************************************************)
\* the last call of the invocation was a per-ingredient search
LastCallIsIngredient == log # <<>> /\ log[Len(log)].op = "ingredient"

\* C24: per-ingredient searches are issued only after a combined search
\* that returned without error; the k-th of them is for the k-th term and
\* there are at most three; a per-ingredient search that fails is passed
\* over and the loop goes on to the next term instead of ending the
\* invocation; and once all_foods holds twice max_results_per_search foods
\* no further per-ingredient search is issued.
C24_ExpansionLoop ==
    /\ Issued("ingredient") =>
          /\ Issued("combined")
          /\ ~Truthy(err)
    /\ (pc \in {"fallback", "enrich"} /\ Truthy(err)) => ~Issued("ingredient")
    /\ Len(CallsOf("ingredient")) <= ExpansionTerms
    /\ \A k \in 1..Len(CallsOf("ingredient")) :
          CallsOf("ingredient")[k].query = ingredients[k]
    /\ pc = "expand" => idx = Len(CallsOf("ingredient")) + 1
    /\ ~(pc = "raised" /\ LastCallIsIngredient)
    /\ (pc = "expand" /\ Len(all_foods) >= max_results_per_search * 2) =>
          ~ENABLED ExpandStep

(***************************************************************************)
(* search_foods on its own (nutrition_query.py:44-101): one call with any  *)
(* query, key argument, key default, page size and network outcome.        *)
(***************************************************************************)
SearchQueries == {None, <<>>, <<" ">>, <<"a">>, <<" ", "a">>}

SearchKeys == KeyOptions \cup {<<>>}

PageSizes == {0, 1, 300}

\* what requests.get and response.json() may produce for one request
SearchOutcomes ==
    TransportErrors
    \cup {[kind |-> "http_no_response"], [kind |-> "request_exception"],
          [kind |-> "invalid_json"]}
    \cup {[kind |-> "json", body |-> b] :
            b \in {ErrorObject.body, NoData,
                   [kind |-> "not_object", foods |-> <<>>],
                   [kind |-> "foods_null", foods |-> <<>>]}
                  \cup {[kind |-> "foods", foods |-> fs] : fs \in FoodLists(1)}}

InitSearch ==
    /\ CallIdleBut
    /\ FDC_API_KEY \in SearchKeys
    /\ idx = 0
    /\ parsed = <<>>
    /\ recipes = <<>>
    /\ pc = "search"
    /\ raised = None
    /\ lead = <<>>
    /\ resp_body = <<>>
    /\ trail = <<>>
    /\ kind = "none"
    /\ resp_entries = <<>>
    /\ parse_out = NoParse
    /\ usda_food = Food(Absent, "", <<>>)
    /\ extract_out = NoExtract
    /\ search_call \in [search_expression : SearchQueries, api_key : SearchKeys,
                        page_size : PageSizes, outcome : SearchOutcomes]
    /\ search_out = NoSearch

\* one call search_foods(search_expression, api_key, page_size)
Search ==
    /\ pc = "search"
    /\ search_out' = search_foods(search_call.search_expression, search_call.api_key,
                                  search_call.page_size, search_call.outcome)
    /\ pc' = "searched"
    /\ UNCHANGED <<lead, resp_body, trail, kind, resp_entries, parse_out, usda_food,
                   extract_out, search_call, raised>>
    /\ UNCHANGED call_vars

NextSearch == Search

SpecSearch == InitSearch /\ [][NextSearch]_vars

\* the call fails before any request: blank query, or no key at all
BlankQuery ==
    \/ ~Truthy(search_call.search_expression)
    \/ ~Truthy(Strip(search_call.search_expression))

NoKeyAtAll == ~Truthy(Or(search_call.api_key, FDC_API_KEY))

\* C25: a call of search_foods sends no request when the query is empty or
\* blank or when neither the api_key argument nor FDC_API_KEY is set, and
\* otherwise exactly one; in those two cases and when the request times out,
\* gets an HTTP error status or a body that does not decode, it returns
\* (None, message); when the body decodes it returns (data, None); in every
\* case exactly one of data and the message is present.
C25_SearchFoodsContract ==
    pc = "searched" =>
        /\ search_out.sent <=> ~(BlankQuery \/ NoKeyAtAll)
        /\ (BlankQuery \/ NoKeyAtAll \/ search_call.outcome.kind # "json") =>
              search_out.data = NoData /\ Truthy(search_out.err)
        /\ (search_out.sent /\ search_call.outcome.kind = "json") =>
              search_out.data = search_call.outcome.body /\ search_out.err = None
        /\ (search_out.data = NoData) # (search_out.err = None)

(***************************************************************************)
(* The source tag of a result (api_utils.py:70-115 and 118-134).           *)
(***************************************************************************)
\* C26: a returned result has source "" exactly when it has an error
\* message; a result with an error has no recipes; a result without one
\* has source "usda" or "ollama"; and "usda" comes only with at least one
\* recipe.
C26_SourceTagMatchesError ==
    pc = "done" =>
        /\ result.source = "" <=> result.error # None
        /\ result.error # None => result.recipes = <<>>
        /\ result.error = None => result.source \in {"usda", "ollama"}
        /\ result.source = "usda" => result.recipes # <<>>

\* an error result after both sources were tried
C26_Witness ==
    /\ pc = "done"
    /\ result.error # None
    /\ result.source = ""
    /\ Issued("ingredient")
    /\ Issued("generative")

====
